---- MODULE Spec2Model ----
(***************************************************************************)
(* State-machine model of smarts/core/agent_manager.py (class              *)
(* AgentManager): the agent registries, the worker handles acquired from   *)
(* the RemoteAgentBuffer, the bystander bindings, and the per-tick         *)
(* operations observe and fetch_agent_actions.                             *)
(*                                                                         *)
(* Python dicts are functions with a finite domain, Python sets are sets.  *)
(* An operation that raises leaves the mutations made before the raise in  *)
(* place; the exception is recorded in ret.err.  Iteration over a Python   *)
(* set has no order the program controls: a loop that can raise midway is  *)
(* modelled with every set of elements it may have processed before.       *)
(***************************************************************************)
EXTENDS Integers, Sequences, FiniteSets, TLC

(* ------------------------------------------------------------------ *)
(* Universe of the model                                               *)
(* ------------------------------------------------------------------ *)

\* Cap on the worker handles of the RemoteAgentBuffer that are alive at one time.
MaxHandles == 2

\* Cap on the attach_sensors_to_vehicle calls counted per vehicle.
MaxAttach == 2

VehicleIds == {"v1", "v2"}

\* f"Agent-{sv_id}"
SynthesizedId(sv_id) == "Agent-" \o sv_id

\* Ids callers register agents under; "Agent-v1" is also a synthesized id.
AgentIds == {"a1", "Agent-v1"}

\* The enumeration order of a scenario's social agent dict.
IdOrder == <<"a1", "Agent-v1">>

ActionSpaceType == {"MultiTargetPose", "Continuous"}

AgentModels == {"model"}

EmptyDict == [x \in {} |-> x]

Put(d, k, v) == [x \in (DOMAIN d) \cup {k} |-> IF x = k THEN v ELSE d[x]]

Pop(d, ks) == [x \in (DOMAIN d) \ ks |-> d[x]]

Update(d, e) == [x \in (DOMAIN d) \cup (DOMAIN e) |-> IF x \in DOMAIN e THEN e[x] ELSE d[x]]

\* filter_ids: <<>> is None, <<S>> is the set S.
NoFilter == <<>>

Filters == {NoFilter} \cup {<<S>> : S \in SUBSET AgentIds}

VARIABLES
    initial_interfaces,     \* self._initial_interfaces
    ego_agent_ids,          \* self._ego_agent_ids
    social_agent_ids,       \* self._social_agent_ids
    pending_agent_ids,      \* self._pending_agent_ids
    agent_interfaces,       \* self._agent_interfaces: id -> action space
    agent_data_models,      \* self._agent_data_models: id -> model
    remote_social_agents,   \* self._remote_social_agents: id -> handle
    vehicle_with_sensors,   \* self._vehicle_with_sensors: vehicle id -> id
    live_handles,           \* handles acquired from the RemoteAgentBuffer, not terminated
    vehicle_index,          \* sim.vehicle_index: vehicle id -> binding
    sensors_attached,       \* vehicle id -> attach_sensors_to_vehicle calls since
                            \* the bystander bindings were last cleared
    ret                     \* the last operation: its name, arguments, result

vars == <<initial_interfaces, ego_agent_ids, social_agent_ids, pending_agent_ids,
          agent_interfaces, agent_data_models, remote_social_agents,
          vehicle_with_sensors, live_handles, vehicle_index, sensors_attached, ret>>

registries == <<ego_agent_ids, social_agent_ids, pending_agent_ids, agent_interfaces,
                agent_data_models, remote_social_agents, vehicle_with_sensors>>

(* ------------------------------------------------------------------ *)
(* Vehicle Index (external collaborator)                               *)
(* ------------------------------------------------------------------ *)

NoActor == "None"

Released == [actor_id |-> NoActor, shadow_actor_id |-> NoActor]

Controlling(agent_id) == [actor_id |-> agent_id, shadow_actor_id |-> NoActor]

Shadowing(agent_id) == [actor_id |-> NoActor, shadow_actor_id |-> agent_id]

Bindings == {Released} \cup {Controlling(a) : a \in AgentIds} \cup {Shadowing(a) : a \in AgentIds}

\* sim.vehicle_index.agent_vehicle_ids
agent_vehicle_ids(index) == {v \in VehicleIds : index[v].actor_id # NoActor}

\* sim.vehicle_index.actor_id_from_vehicle_id
actor_id_from_vehicle_id(index, v_id) == index[v_id].actor_id

\* sim.vehicle_index.vehicle_ids_by_actor_id
vehicle_ids_by_actor_id(index, actor_id, include_shadowers) ==
    {v \in VehicleIds : \/ index[v].actor_id = actor_id
                        \/ include_shadowers /\ index[v].shadow_actor_id = actor_id}

\* sim.vehicle_index.vehicle_indices_by_actor_id(agent_id, columns=[vehicle_id, shadow_actor_id])
vehicle_indices_by_actor_id(index, actor_id) ==
    {v \in VehicleIds : index[v].actor_id = actor_id \/ index[v].shadow_actor_id = actor_id}

\* The order in which build_agent_vehicle hands out the vehicle ids of the universe.
VehicleOrder == <<"v1", "v2">>

\* sim.vehicle_index.build_agent_vehicle: a new vehicle controlled by agent_id
\* (the first unbound vehicle id of the universe; none when all are bound).
build_agent_vehicle(index, agent_id) ==
    LET free == {i \in 1..Len(VehicleOrder) : index[VehicleOrder[i]] = Released}
    IN  IF free = {} THEN index
        ELSE LET i == CHOOSE x \in free : \A y \in free : x <= y
             IN  [index EXCEPT ![VehicleOrder[i]] = Controlling(agent_id)]

(* ------------------------------------------------------------------ *)
(* Results                                                             *)
(* ------------------------------------------------------------------ *)

\* The record of the last operation.  op: the operation; err: the exception
\* it raised ("" when it returned); the other fields are those of the
\* operation:
\* adding: the ids a start_social_agent or setup_social_agents call that
\* raised was registering;
\* filter, ids: teardown_*_agents's argument and return value;
\* interface, vehicle_ids: attach_sensors_to_vehicles's arguments;
\* sensed, dones: the Sensor Engine's per-vehicle dones and observe's dones;
\* ego_actions, recv, actions: fetch_agent_actions's argument, what each
\* worker's recv_action returned, and the returned action map;
\* requests: agent id -> the recv_action calls fetch_agent_actions made on
\* the agent's worker handle;
\* response, filtered: the dicts handed to reset_agents,
\* send_observations_to_social_agents or filter_response_for_ego and the dicts
\* returned; sent: agent id -> the send_observation calls made on the agent's
\* worker handle; stepped: the vehicles whose sensors step_agent_sensors stepped.
NoRet == [op |-> "", err |-> ""]

Returned(op) ==
    CASE op \in {"setup_social_agents", "start_social_agent"} ->
             [op |-> op, err |-> "", adding |-> {}]
      [] op \in {"teardown_ego_agents", "teardown_social_agents"} ->
             [op |-> op, err |-> "", filter |-> NoFilter, ids |-> {}]
      [] op = "attach_sensors_to_vehicles" ->
             [op |-> op, err |-> "", interface |-> "", vehicle_ids |-> <<>>]
      [] op = "observe" ->
             [op |-> op, err |-> "", sensed |-> EmptyDict, dones |-> EmptyDict]
      [] op = "fetch_agent_actions" ->
             [op |-> op, err |-> "", ego_actions |-> EmptyDict, requests |-> EmptyDict,
              recv |-> EmptyDict, actions |-> EmptyDict]
      [] op \in {"send_observations_to_social_agents", "reset_agents",
                 "filter_response_for_ego"} ->
             [op |-> op, err |-> "", response |-> <<>>, sent |-> EmptyDict,
              filtered |-> <<>>]
      [] op = "step_agent_sensors" ->
             [op |-> op, err |-> "", stepped |-> {}]
      [] OTHER -> [op |-> op, err |-> ""]

Raised(op, err) == [Returned(op) EXCEPT !.err = err]

(* ------------------------------------------------------------------ *)
(* Construction                                                        *)
(* ------------------------------------------------------------------ *)

\* The interfaces handed to __init__: ego agent id -> action space.
InitialInterfaces ==
    [{"a1"} -> ActionSpaceType]

Init ==
    /\ initial_interfaces \in InitialInterfaces
    /\ ego_agent_ids = {}
    /\ social_agent_ids = {}
    /\ pending_agent_ids = {}
    /\ agent_interfaces = EmptyDict
    /\ agent_data_models = EmptyDict
    /\ remote_social_agents = EmptyDict
    /\ vehicle_with_sensors = EmptyDict
    /\ live_handles = {}
    /\ vehicle_index = [v \in VehicleIds |-> Released]
    /\ sensors_attached = [v \in VehicleIds |-> 0]
    /\ ret = NoRet

(* ------------------------------------------------------------------ *)
(* Properties of the manager                                           *)
(* ------------------------------------------------------------------ *)

agent_ids == ego_agent_ids \cup social_agent_ids

active_agents == agent_ids \ pending_agent_ids

(* ------------------------------------------------------------------ *)
(* Lifecycle                                                           *)
(* ------------------------------------------------------------------ *)

\* The registries and the live worker handles as one value.
Reg == [ego |-> ego_agent_ids, social |-> social_agent_ids,
        pending |-> pending_agent_ids, ifaces |-> agent_interfaces,
        models |-> agent_data_models, remote |-> remote_social_agents,
        vws |-> vehicle_with_sensors, live |-> live_handles,
        attached |-> sensors_attached]

Install(r) ==
    /\ ego_agent_ids' = r.ego
    /\ social_agent_ids' = r.social
    /\ pending_agent_ids' = r.pending
    /\ agent_interfaces' = r.ifaces
    /\ agent_data_models' = r.models
    /\ remote_social_agents' = r.remote
    /\ vehicle_with_sensors' = r.vws
    /\ live_handles' = r.live
    /\ sensors_attached' = r.attached

\* self._remote_agent_buffer.acquire_remote_agent(), n times: the handles it
\* returns, in the order of the calls (a handle is a slot of the buffer that
\* is not alive).
RECURSIVE AcquireRemoteAgents(_, _)
AcquireRemoteAgents(live, n) ==
    IF n = 0 THEN <<>>
    ELSE LET h == CHOOSE x \in (1..MaxHandles) \ live :
                      \A y \in (1..MaxHandles) \ live : x <= y
         IN  <<h>> \o AcquireRemoteAgents(live \cup {h}, n - 1)

Range(seq) == {seq[i] : i \in 1..Len(seq)}

\* The position of an id in the scenario's dict among the ids S.
Rank(id, S) ==
    Cardinality({i \in 1..Len(IdOrder) : IdOrder[i] \in S /\
                   \E j \in 1..Len(IdOrder) : IdOrder[j] = id /\ i <= j})

init_ego_agents ==
    /\ pending_agent_ids' = pending_agent_ids \cup DOMAIN initial_interfaces
    /\ ego_agent_ids' = ego_agent_ids \cup DOMAIN initial_interfaces
    /\ agent_interfaces' = Update(agent_interfaces, initial_interfaces)
    /\ ret' = Returned("init_ego_agents")
    /\ UNCHANGED <<initial_interfaces, social_agent_ids, agent_data_models,
                   remote_social_agents, vehicle_with_sensors, live_handles,
                   vehicle_index, sensors_attached>>

remove_pending_agent_ids(ids) ==
    /\ IF ids \subseteq agent_ids
       THEN /\ pending_agent_ids' = pending_agent_ids \ ids
            /\ ret' = Returned("remove_pending_agent_ids")
       ELSE /\ pending_agent_ids' = pending_agent_ids
            /\ ret' = Raised("remove_pending_agent_ids", "AssertionError")
    /\ UNCHANGED <<initial_interfaces, ego_agent_ids, social_agent_ids, agent_interfaces,
                   agent_data_models, remote_social_agents, vehicle_with_sensors,
                   live_handles, vehicle_index, sensors_attached>>

\* The scenarios' social agents: id -> interface action space (with one model each).
ScenarioSocialAgents ==
    UNION {[S -> ActionSpaceType] : S \in SUBSET AgentIds}

\* _add_agent for every social agent of the scenario, on the vehicle index.
RECURSIVE BuildAgentVehicles(_, _, _)
BuildAgentVehicles(index, S, i) ==
    IF i > Len(IdOrder) THEN index
    ELSE BuildAgentVehicles(
             IF IdOrder[i] \in S THEN build_agent_vehicle(index, IdOrder[i]) ELSE index,
             S, i + 1)

\* The ids are added to the social id set although the acquisition raised.
AcquisitionFailed_Registered(r, ids, acquired) ==
    [r EXCEPT !.live = @ \cup acquired, !.social = @ \cup ids]

\* acquire_remote_agent() raised while the ids were being added, after the
\* handles `acquired` had been acquired: the exception leaves the statement
\* before anything is assigned.
AcquisitionFailed(r, ids, acquired) ==
    [r EXCEPT !.live = @ \cup acquired]

setup_social_agents(social_agents) ==
    LET S == DOMAIN social_agents
        handles == AcquireRemoteAgents(live_handles, Cardinality(S))
    IN  \/ /\ Cardinality(live_handles) + Cardinality(S) <= MaxHandles
           /\ live_handles' = live_handles \cup Range(handles)
           /\ remote_social_agents' = [id \in S |-> handles[Rank(id, S)]]
           /\ agent_interfaces' = Update(agent_interfaces, social_agents)
           /\ agent_data_models' = Update(agent_data_models, [id \in S |-> "model"])
           /\ vehicle_index' = BuildAgentVehicles(vehicle_index, S, 1)
           /\ social_agent_ids' = social_agent_ids \cup S
           /\ ret' = Returned("setup_social_agents")
           /\ UNCHANGED <<initial_interfaces, ego_agent_ids, pending_agent_ids,
                          vehicle_with_sensors, sensors_attached>>
        \* the k-th acquire_remote_agent() of the dict comprehension raises
        \/ \E k \in 1..Cardinality(S) :
               /\ Cardinality(live_handles) + k - 1 <= MaxHandles
               /\ Install(AcquisitionFailed(Reg, S,
                      Range(AcquireRemoteAgents(live_handles, k - 1))))
               /\ ret' = [Raised("setup_social_agents", "AcquisitionFailure") EXCEPT
                              !.adding = S]
               /\ UNCHANGED <<initial_interfaces, vehicle_index>>

start_social_agent(agent_id, interface, agent_model) ==
    LET handles == AcquireRemoteAgents(live_handles, 1)
    IN  \/ /\ Cardinality(live_handles) + 1 <= MaxHandles
           /\ live_handles' = live_handles \cup Range(handles)
           /\ remote_social_agents' = Put(remote_social_agents, agent_id, handles[1])
           /\ agent_interfaces' = Put(agent_interfaces, agent_id, interface)
           /\ social_agent_ids' = social_agent_ids \cup {agent_id}
           /\ agent_data_models' = Put(agent_data_models, agent_id, agent_model)
           /\ ret' = Returned("start_social_agent")
           /\ UNCHANGED <<initial_interfaces, ego_agent_ids, pending_agent_ids,
                          vehicle_with_sensors, vehicle_index, sensors_attached>>
        \* acquire_remote_agent() raises
        \/ /\ Install(AcquisitionFailed(Reg, {agent_id}, {}))
           /\ ret' = [Raised("start_social_agent", "AcquisitionFailure") EXCEPT
                          !.adding = {agent_id}]
           /\ UNCHANGED <<initial_interfaces, vehicle_index>>

\* _teardown_agents_by_ids: the ids it returns.
TeardownIds(ids, filter_ids) ==
    IF filter_ids = NoFilter THEN ids ELSE ids \cap filter_ids[1]

\* _teardown_agents_by_ids: the registries after it.
TeardownAgentsByIds(r, ids, filter_ids) ==
    [r EXCEPT !.ifaces = Pop(@, TeardownIds(ids, filter_ids))]

\* teardown_ego_agents on the registries r: the outcome.
TeardownEgoAgents(r, filter_ids) ==
    LET ids_ == TeardownIds(r.ego, filter_ids)
        r1 == TeardownAgentsByIds(r, r.ego, filter_ids)
    IN  [reg |-> [r1 EXCEPT !.ego = @ \ ids_], ids |-> ids_, err |-> ""]

\* The body of teardown_social_agents's loop for the ids P, none of which raises:
\* terminate() the handle, del the handle, del the model.
TerminateAndDelete(r, P) ==
    [r EXCEPT !.live = @ \ {r.remote[id] : id \in P},
              !.remote = Pop(@, P),
              !.models = Pop(@, P)]

\* terminate() raised in the loop of teardown_social_agents over ids_, after
\* the ids P: the exception leaves the loop, the handle that failed to
\* terminate stays alive.
TerminateFailed(r, ids_, P) == TerminateAndDelete(r, P)

\* teardown_social_agents on the registries r: the outcomes in which a
\* terminate() raises, at the id f after the ids P.
TeardownSocialAgentsTerminateFails(r, filter_ids) ==
    LET ids_ == TeardownIds(r.social, filter_ids)
        r1 == TeardownAgentsByIds(r, r.social, filter_ids)
        good == {id \in ids_ : id \in DOMAIN r.remote /\ id \in DOMAIN r.models}
    IN  {[reg |-> TerminateFailed(r1, ids_, fp[2]), ids |-> {}, err |-> "TeardownError"]
            : fp \in {x \in (ids_ \cap DOMAIN r.remote) \X SUBSET good : x[1] \notin x[2]}}

\* teardown_social_agents on the registries r: the outcomes in which every
\* terminate() returns.
TeardownSocialAgentsTerminated(r, filter_ids) ==
    LET ids_ == TeardownIds(r.social, filter_ids)
        r1 == TeardownAgentsByIds(r, r.social, filter_ids)
        good == {id \in ids_ : id \in DOMAIN r.remote /\ id \in DOMAIN r.models}
    IN  IF good = ids_
        THEN {[reg |-> [TerminateAndDelete(r1, ids_) EXCEPT !.social = @ \ ids_],
               ids |-> ids_, err |-> ""]}
        ELSE \* self._remote_social_agents[id_] (or the del of the model) raises
             \* KeyError at the first id f without an entry, after the ids P.
             {[reg |-> IF fp[1] \in DOMAIN r.remote
                       THEN [TerminateAndDelete(r1, fp[2] \cup {fp[1]}) EXCEPT
                                 !.models = Pop(r1.models, fp[2])]
                       ELSE TerminateAndDelete(r1, fp[2]),
               ids |-> {}, err |-> "KeyError"]
                 : fp \in (ids_ \ good) \X SUBSET good}

\* teardown_social_agents on the registries r: every outcome.
TeardownSocialAgents(r, filter_ids) ==
    TeardownSocialAgentsTerminated(r, filter_ids)
        \cup TeardownSocialAgentsTerminateFails(r, filter_ids)

teardown_ego_agents(filter_ids) ==
    LET o == TeardownEgoAgents(Reg, filter_ids)
    IN  /\ Install(o.reg)
        /\ ret' = [Returned("teardown_ego_agents") EXCEPT !.ids = o.ids]
        /\ UNCHANGED <<initial_interfaces, vehicle_index>>

teardown_social_agents(filter_ids) ==
    \E o \in TeardownSocialAgents(Reg, filter_ids) :
        /\ Install(o.reg)
        /\ ret' = [Raised("teardown_social_agents", o.err) EXCEPT
                       !.filter = filter_ids, !.ids = o.ids]
        /\ UNCHANGED <<initial_interfaces, vehicle_index>>

\* teardown: the bystander bindings are cleared unless teardown_social_agents raised.
teardown ==
    \E o \in TeardownSocialAgents(TeardownEgoAgents(Reg, NoFilter).reg, NoFilter) :
        /\ Install(IF o.err = ""
                   THEN [o.reg EXCEPT !.vws = EmptyDict,
                                      !.attached = [v \in VehicleIds |-> 0]]
                   ELSE o.reg)
        /\ ret' = Raised("teardown", o.err)
        /\ UNCHANGED <<initial_interfaces, vehicle_index>>

(* ------------------------------------------------------------------ *)
(* Bystander binder                                                    *)
(* ------------------------------------------------------------------ *)

\* The loop body without the `if sv_id in self._vehicle_with_sensors: continue`.
AttachSensorsToVehicle_Unchecked(r, agent_interface, sv_id) ==
    [r EXCEPT !.vws = Put(@, sv_id, SynthesizedId(sv_id)),
              !.ifaces = Put(@, SynthesizedId(sv_id), agent_interface),
              !.attached = [@ EXCEPT ![sv_id] = @ + 1]]

\* The body of attach_sensors_to_vehicles's loop for one vehicle id.
AttachSensorsToVehicle(r, agent_interface, sv_id) ==
    IF sv_id \in DOMAIN r.vws
    THEN r
    ELSE [r EXCEPT !.vws = Put(@, sv_id, SynthesizedId(sv_id)),
                   !.ifaces = Put(@, SynthesizedId(sv_id), agent_interface),
                   !.attached = [@ EXCEPT ![sv_id] = @ + 1]]

RECURSIVE AttachSensorsToVehicles(_, _, _)
AttachSensorsToVehicles(r, agent_interface, vehicle_ids) ==
    IF vehicle_ids = <<>> THEN r
    ELSE AttachSensorsToVehicles(
             AttachSensorsToVehicle(r, agent_interface, Head(vehicle_ids)),
             agent_interface, Tail(vehicle_ids))

\* The vehicle id lists handed to attach_sensors_to_vehicles.
VehicleIdLists ==
    {<<>>} \cup {<<v>> : v \in VehicleIds} \cup {<<v, w>> : v \in VehicleIds, w \in VehicleIds}

attach_sensors_to_vehicles(agent_interface, vehicle_ids) ==
    LET r == AttachSensorsToVehicles(Reg, agent_interface, vehicle_ids)
    IN  /\ \A v \in VehicleIds : r.attached[v] <= MaxAttach
        /\ Install(r)
        /\ ret' = [Returned("attach_sensors_to_vehicles") EXCEPT
                       !.interface = agent_interface, !.vehicle_ids = vehicle_ids]
        /\ UNCHANGED <<initial_interfaces, vehicle_index>>

(* ------------------------------------------------------------------ *)
(* Tick: observation                                                   *)
(* ------------------------------------------------------------------ *)

\* The Vehicle Index is owned by the simulation: a vehicle's binding changes
\* (a vehicle enters an airlock, is hijacked, is released) between the
\* manager's operations.
vehicle_index_change(v_id, binding) ==
    /\ vehicle_index[v_id] # binding
    /\ vehicle_index' = [vehicle_index EXCEPT ![v_id] = binding]
    /\ ret' = NoRet
    /\ UNCHANGED <<initial_interfaces, ego_agent_ids, social_agent_ids, pending_agent_ids,
                   agent_interfaces, agent_data_models, remote_social_agents,
                   vehicle_with_sensors, live_handles, sensors_attached>>

\* The done flags Sensors.observe computes for the vehicles: vehicle id -> done.
SensedDones == [VehicleIds -> BOOLEAN]

\* all(...) in place of any(...).
AnyTrue_All(S) == S = {TRUE}

\* any(...)
AnyTrue(S) == TRUE \in S

\* observe: the dones dict before the loop over the active agents.
InitialDones ==
    [agent_id \in {a \in agent_ids : a \notin agent_vehicle_ids(vehicle_index)} |->
        agent_id \notin pending_agent_ids]

\* observe: what the loop body raises for one active agent ("" when nothing).
ObserveError(agent_id) ==
    IF agent_id \notin DOMAIN agent_interfaces THEN "KeyError"
    ELSE IF /\ agent_interfaces[agent_id] # "MultiTargetPose"
            /\ Cardinality(vehicle_indices_by_actor_id(vehicle_index, agent_id)) # 1
         THEN "AssertionError"
         ELSE ""

\* `if indices["shadow_actor_id"][0] != agent_id` in place of `==`.
ObserveDone_NotShadower(agent_id, sensed) ==
    LET indices == vehicle_indices_by_actor_id(vehicle_index, agent_id)
    IN  IF agent_interfaces[agent_id] = "MultiTargetPose"
        THEN AnyTrue({sensed[v] : v \in indices})
        ELSE LET v == CHOOSE x \in indices : TRUE
             IN  IF vehicle_index[v].shadow_actor_id # agent_id
                 THEN FALSE
                 ELSE sensed[v]

\* observe: dones[agent_id] as the loop body leaves it for one active agent.
ObserveDone(agent_id, sensed) ==
    LET indices == vehicle_indices_by_actor_id(vehicle_index, agent_id)
    IN  IF agent_interfaces[agent_id] = "MultiTargetPose"
        THEN AnyTrue({sensed[v] : v \in indices})
        ELSE LET v == CHOOSE x \in indices : TRUE
             IN  IF vehicle_index[v].shadow_actor_id = agent_id
                 THEN FALSE
                 ELSE sensed[v]

observe(sensed) ==
    LET errors == {ObserveError(a) : a \in active_agents} \ {""}
    IN  /\ IF errors = {}
           THEN ret' = [Returned("observe") EXCEPT
                            !.sensed = sensed,
                            !.dones = Update(InitialDones,
                                             [a \in active_agents |-> ObserveDone(a, sensed)])]
           ELSE \E e \in errors : ret' = [Raised("observe", e) EXCEPT !.sensed = sensed]
        /\ UNCHANGED <<initial_interfaces, ego_agent_ids, social_agent_ids, pending_agent_ids,
                       agent_interfaces, agent_data_models, remote_social_agents,
                       vehicle_with_sensors, live_handles, vehicle_index, sensors_attached>>

(* ------------------------------------------------------------------ *)
(* Tick: action collection                                             *)
(* ------------------------------------------------------------------ *)

\* What recv_action(timeout=5) returns: None, an action, or a per-vehicle bundle.
NoAction == [src |-> "social", kind |-> "None", per_vehicle |-> EmptyDict]

SocialAction == [src |-> "social", kind |-> "action", per_vehicle |-> EmptyDict]

SocialBundle(action_by_vehicle) ==
    [src |-> "social", kind |-> "bundle", per_vehicle |-> action_by_vehicle]

FullBundle == SocialBundle([v \in VehicleIds |-> "action-" \o v])

Responses == {NoAction, SocialAction, FullBundle}

\* An action the caller computed for an ego agent.
EgoAction == [src |-> "ego", kind |-> "action", per_vehicle |-> EmptyDict]

\* The ids of the ego agents the manager is constructed with.
InitialEgoIds == {"a1"}

\* The ego_agent_actions dicts handed to fetch_agent_actions: the caller's
\* actions for none or all of the ego agents it constructed the manager with.
EgoAgentActions == UNION {[S -> {EgoAction}] : S \in SUBSET InitialEgoIds}

\* _filter_social_agent_actions_for_controlled_vehicles: the agents kept.
ControllingAgentIds(index) ==
    {actor_id_from_vehicle_id(index, v_id) : v_id \in agent_vehicle_ids(index)}

\* include_shadowers=True in place of False.
ControlledVehicleIds_Shadowers(index, agent_id) ==
    vehicle_ids_by_actor_id(index, agent_id, TRUE)

\* The inner filter for a MultiTargetPose agent's bundle.
ControlledVehicleIds(index, agent_id) == vehicle_ids_by_actor_id(index, agent_id, FALSE)

FilterBundle(index, agent_id, actions) ==
    SocialBundle([v \in (DOMAIN actions.per_vehicle) \cap ControlledVehicleIds(index, agent_id) |->
                     actions.per_vehicle[v]])

\* What the filter's loop body raises for one kept agent ("" when nothing).
FilterError(agent_id, actions) ==
    IF agent_id \notin DOMAIN agent_interfaces THEN "KeyError"
    ELSE IF agent_interfaces[agent_id] = "MultiTargetPose" /\ actions.kind # "bundle"
         THEN "AttributeError"
         ELSE ""

FilterSocialAgentActionsForControlledVehicles(index, social_agent_actions) ==
    LET kept == (DOMAIN social_agent_actions) \cap ControllingAgentIds(index)
    IN  [agent_id \in kept |->
            IF /\ agent_id \in DOMAIN agent_interfaces
               /\ agent_interfaces[agent_id] = "MultiTargetPose"
               /\ social_agent_actions[agent_id].kind = "bundle"
            THEN FilterBundle(index, agent_id, social_agent_actions[agent_id])
            ELSE social_agent_actions[agent_id]]

\* {**social_agent_actions, **ego_agent_actions}
MergeActions_EgoLast(ego_agent_actions, social_agent_actions) ==
    Update(social_agent_actions, ego_agent_actions)

\* {**ego_agent_actions, **social_agent_actions}
MergeActions(ego_agent_actions, social_agent_actions) ==
    Update(ego_agent_actions, social_agent_actions)

\* The position of an id in the enumeration order of the handle map.
Position(id) == CHOOSE i \in 1..Len(IdOrder) : IdOrder[i] = id

\* The collection stops at the first worker that returns None.
RecvActionRequests_StopAtNone(remote, recv) ==
    [id \in DOMAIN remote |->
        IF \E b \in DOMAIN remote : Position(b) < Position(id) /\ recv[b] = NoAction
        THEN 0 ELSE 1]

\* The dict comprehension of lines 209-212: the recv_action(timeout=5) calls
\* made on the handle of each id of the handle map, whatever the workers
\* return (recv: what each returns when asked).
RecvActionRequests(remote, recv) == [id \in DOMAIN remote |-> 1]

\* social_agent_actions as the comprehension builds it: the answers of the
\* workers that were asked.
CollectedActions(requests, recv) ==
    [id \in {a \in DOMAIN requests : requests[a] > 0} |-> recv[id]]

fetch_agent_actions(ego_agent_actions, responses) ==
    \* the comprehension runs once, before the filter
    \E requests \in {RecvActionRequests(remote_social_agents, responses)} :
    \E recv \in {CollectedActions(requests, responses)} :
    LET kept == (DOMAIN recv) \cap ControllingAgentIds(vehicle_index)
        errors == {FilterError(a, recv[a]) : a \in kept} \ {""}
        call == [Returned("fetch_agent_actions") EXCEPT
                     !.recv = recv, !.ego_actions = ego_agent_actions,
                     !.requests = requests]
    IN  /\ IF errors = {}
           THEN ret' = [call EXCEPT !.actions =
                            MergeActions(ego_agent_actions,
                                FilterSocialAgentActionsForControlledVehicles(vehicle_index, recv))]
           ELSE \E e \in errors : ret' = [call EXCEPT !.err = e]
        /\ UNCHANGED <<initial_interfaces, ego_agent_ids, social_agent_ids, pending_agent_ids,
                       agent_interfaces, agent_data_models, remote_social_agents,
                       vehicle_with_sensors, live_handles, vehicle_index, sensors_attached>>

(* ------------------------------------------------------------------ *)
(* Tick: observation dispatch, sensors, reset                          *)
(* ------------------------------------------------------------------ *)

ObservationValues == {"o1", "o2"}

\* The observations dicts handed to send_observations_to_social_agents and
\* reset_agents: agent id -> observation.
Observations == UNION {[S -> ObservationValues] : S \in SUBSET AgentIds}

\* The response tuples handed to filter_response_for_ego: observations and dones.
ResponseTuples ==
    {<<[a \in S |-> "o1"], [a \in T |-> "d1"]>> : S \in SUBSET AgentIds, T \in SUBSET AgentIds}

\* The loop `for agent_id, remote_agent in self._remote_social_agents.items():
\* remote_agent.send_observation(observations[agent_id])`: every outcome.
\* observations[agent_id] raises KeyError at the first id without an entry,
\* after the ids P.
SendObservations(remote, observations) ==
    LET present == (DOMAIN remote) \cap (DOMAIN observations)
    IN  IF present = DOMAIN remote
        THEN {[sent |-> [id \in DOMAIN remote |-> 1], err |-> ""]}
        ELSE {[sent |-> [id \in DOMAIN remote |-> IF id \in P THEN 1 ELSE 0],
               err |-> "KeyError"] : P \in SUBSET present}

\* The ids kept without the `if not id_ in self.pending_agent_ids`.
ActiveEgoIds_All == ego_agent_ids

\* _filter_for_active_ego: the ids kept.
ActiveEgoIds == {id_ \in ego_agent_ids : ~(id_ \in pending_agent_ids)}

\* _filter_for_active_ego: dict_[id_] raises KeyError for a kept id without entry.
FilterForActiveEgoError(dict_) ==
    IF ActiveEgoIds \subseteq DOMAIN dict_ THEN "" ELSE "KeyError"

\* _filter_for_active_ego
FilterForActiveEgo(dict_) ==
    [id_ \in ActiveEgoIds \cap DOMAIN dict_ |-> dict_[id_]]

send_observations_to_social_agents(observations) ==
    /\ \E o \in SendObservations(remote_social_agents, observations) :
           ret' = [Raised("send_observations_to_social_agents", o.err) EXCEPT
                       !.response = <<observations>>, !.sent = o.sent]
    /\ UNCHANGED <<initial_interfaces, ego_agent_ids, social_agent_ids, pending_agent_ids,
                   agent_interfaces, agent_data_models, remote_social_agents,
                   vehicle_with_sensors, live_handles, vehicle_index, sensors_attached>>

reset_agents(observations) ==
    /\ \E o \in SendObservations(remote_social_agents, observations) :
           LET call == [Raised("reset_agents", o.err) EXCEPT
                            !.response = <<observations>>, !.sent = o.sent]
           IN  IF o.err # "" THEN ret' = call
               ELSE IF FilterForActiveEgoError(observations) # ""
                    THEN ret' = [call EXCEPT !.err = FilterForActiveEgoError(observations)]
                    ELSE ret' = [call EXCEPT !.filtered = <<FilterForActiveEgo(observations)>>]
    /\ UNCHANGED <<initial_interfaces, ego_agent_ids, social_agent_ids, pending_agent_ids,
                   agent_interfaces, agent_data_models, remote_social_agents,
                   vehicle_with_sensors, live_handles, vehicle_index, sensors_attached>>

filter_response_for_ego(response_tuple) ==
    LET errors == {FilterForActiveEgoError(response_tuple[i]) :
                       i \in 1..Len(response_tuple)} \ {""}
        call == [Returned("filter_response_for_ego") EXCEPT !.response = response_tuple]
    IN  /\ IF errors = {}
           THEN ret' = [call EXCEPT !.filtered =
                            [i \in 1..Len(response_tuple) |->
                                FilterForActiveEgo(response_tuple[i])]]
           ELSE ret' = [call EXCEPT !.err = "KeyError"]
        /\ UNCHANGED <<initial_interfaces, ego_agent_ids, social_agent_ids, pending_agent_ids,
                       agent_interfaces, agent_data_models, remote_social_agents,
                       vehicle_with_sensors, live_handles, vehicle_index, sensors_attached>>

\* The registries are emptied by the call.
step_agent_sensors_Clearing ==
    /\ ret' = [Returned("step_agent_sensors") EXCEPT
                   !.stepped = agent_vehicle_ids(vehicle_index)]
    /\ pending_agent_ids' = {}
    /\ agent_interfaces' = EmptyDict
    /\ UNCHANGED <<initial_interfaces, ego_agent_ids, social_agent_ids,
                   agent_data_models, remote_social_agents,
                   vehicle_with_sensors, live_handles, vehicle_index, sensors_attached>>

\* step_agent_sensors: Sensors.step and sensor.step() for every vehicle of
\* sim.vehicle_index.agent_vehicle_ids.
step_agent_sensors ==
    /\ ret' = [Returned("step_agent_sensors") EXCEPT
                   !.stepped = agent_vehicle_ids(vehicle_index)]
    /\ UNCHANGED <<initial_interfaces, ego_agent_ids, social_agent_ids, pending_agent_ids,
                   agent_interfaces, agent_data_models, remote_social_agents,
                   vehicle_with_sensors, live_handles, vehicle_index, sensors_attached>>

(* ------------------------------------------------------------------ *)
(* Specifications                                                      *)
(* ------------------------------------------------------------------ *)

InitEgoAgents == init_ego_agents

RemovePendingAgentIds == \E ids \in SUBSET AgentIds : remove_pending_agent_ids(ids)

SetupSocialAgents ==
    \E social_agents \in ScenarioSocialAgents : setup_social_agents(social_agents)

StartSocialAgent ==
    \E agent_id \in AgentIds, interface \in ActionSpaceType, agent_model \in AgentModels :
        start_social_agent(agent_id, interface, agent_model)

TeardownEgoAgentsOp == \E filter_ids \in Filters : teardown_ego_agents(filter_ids)

TeardownSocialAgentsOp == \E filter_ids \in Filters : teardown_social_agents(filter_ids)

Teardown == teardown

AttachSensorsToVehiclesOp ==
    \E agent_interface \in ActionSpaceType, vehicle_ids \in VehicleIdLists :
        attach_sensors_to_vehicles(agent_interface, vehicle_ids)

VehicleIndexChange ==
    \E v_id \in VehicleIds, binding \in Bindings : vehicle_index_change(v_id, binding)

Observe == \E sensed \in SensedDones : observe(sensed)

FetchAgentActions ==
    \E ego_agent_actions \in EgoAgentActions :
        \E recv \in [DOMAIN remote_social_agents -> Responses] :
            fetch_agent_actions(ego_agent_actions, recv)

SendObservationsToSocialAgents ==
    \E observations \in Observations : send_observations_to_social_agents(observations)

ResetAgents == \E observations \in Observations : reset_agents(observations)

FilterResponseForEgo ==
    \E response_tuple \in ResponseTuples : filter_response_for_ego(response_tuple)

StepAgentSensors == step_agent_sensors

\* The lifecycle manager.
Next ==
    \/ InitEgoAgents
    \/ RemovePendingAgentIds
    \/ SetupSocialAgents
    \/ StartSocialAgent
    \/ TeardownEgoAgentsOp
    \/ TeardownSocialAgentsOp
    \/ Teardown

Spec == Init /\ [][Next]_vars

\* The tick orchestrator over the agents the lifecycle manager registers.  The
\* tick reads agent_ids, the pending ids, the capability descriptors, the keys
\* of the worker-handle map and the Vehicle Index.  The lifecycle operations
\* below reach the combinations of these the tick branches on: an id that is
\* ego, social or both, pending or active, with or without a handle, with
\* either descriptor or (after teardown_ego_agents) none.
TickNext ==
    \/ InitEgoAgents
    \/ RemovePendingAgentIds
    \/ StartSocialAgent
    \/ TeardownEgoAgentsOp
    \/ VehicleIndexChange
    \/ Observe
    \/ FetchAgentActions

TickSpec == Init /\ [][TickNext]_vars

\* The bystander binder next to the lifecycle operations that write the
\* capability descriptors and clear the bindings.
BystanderNext ==
    \/ InitEgoAgents
    \/ StartSocialAgent
    \/ TeardownEgoAgentsOp
    \/ Teardown
    \/ AttachSensorsToVehiclesOp

BystanderSpec == Init /\ [][BystanderNext]_vars

\* The operations that register agents, next to those that write the same
\* registries for the ego agents.
RegistrationNext ==
    \/ InitEgoAgents
    \/ RemovePendingAgentIds
    \/ SetupSocialAgents
    \/ StartSocialAgent
    \/ TeardownEgoAgentsOp

RegistrationSpec == Init /\ [][RegistrationNext]_vars

\* The four operations of one tick over the agents the lifecycle manager
\* registers and promotes.
TickFrameNext ==
    \/ InitEgoAgents
    \/ RemovePendingAgentIds
    \/ StartSocialAgent
    \/ VehicleIndexChange
    \/ Observe
    \/ SendObservationsToSocialAgents
    \/ FetchAgentActions
    \/ StepAgentSensors

TickFrameSpec == Init /\ [][TickFrameNext]_vars

\* The companion operations of the episode reset next to the lifecycle
\* operations that write the ego ids, the pending ids and the handle map.
ResetNext ==
    \/ InitEgoAgents
    \/ RemovePendingAgentIds
    \/ SetupSocialAgents
    \/ StartSocialAgent
    \/ TeardownEgoAgentsOp
    \/ ResetAgents
    \/ FilterResponseForEgo

ResetSpec == Init /\ [][ResetNext]_vars

(* ------------------------------------------------------------------ *)
(* Claims                                                              *)
(* ------------------------------------------------------------------ *)

\* The vehicles the Vehicle Index reports agent_id as controlling / shadowing.
ControlledBy(agent_id) == {v \in VehicleIds : vehicle_index[v].actor_id = agent_id}

ShadowedBy(agent_id) == {v \in VehicleIds : vehicle_index[v].shadow_actor_id = agent_id}

\* C1: after every lifecycle operation the ego id set and the social id set
\* are disjoint, and agent_ids is their union.
C1_EgoSocialDisjoint ==
    /\ ego_agent_ids \cap social_agent_ids = {}
    /\ agent_ids = ego_agent_ids \cup social_agent_ids

\* C2: in every reachable state the pending id set is a subset of agent_ids.
C2_PendingSubsetOfAgentIds == pending_agent_ids \subseteq agent_ids

\* C3: the worker handles acquired and not terminated are exactly the handles
\* bound to the ids of the social id set, one handle per social id.
C3_HandlesOwnedBySocialAgents ==
    /\ DOMAIN remote_social_agents = social_agent_ids
    /\ live_handles = {remote_social_agents[id] : id \in DOMAIN remote_social_agents}
    /\ \A a, b \in DOMAIN remote_social_agents :
           remote_social_agents[a] = remote_social_agents[b] => a = b

\* C4: a social agent whose recv_action returned no action has no entry of its
\* own in the action map fetch_agent_actions returns, and no timeout makes the
\* call fail (an AttributeError comes only from a response that is neither
\* None nor a bundle).
C4_TimedOutAgentOmitted ==
    ret.op = "fetch_agent_actions" =>
        /\ ret.err = "" =>
               \A a \in DOMAIN ret.recv :
                   ret.recv[a] = NoAction =>
                       a \notin DOMAIN ret.actions \/ ret.actions[a].src = "ego"
        /\ ret.err = "AttributeError" =>
               \E a \in DOMAIN ret.recv : ret.recv[a].kind = "action"

\* C5: the returned action map carries a social agent's action only if the
\* Vehicle Index reports the agent as controlling a vehicle, and the bundle
\* of a MultiTargetPose agent is its response restricted to exactly the
\* vehicles it controls (shadowed vehicles are dropped).
C5_OnlyControlledVehiclesActuated ==
    (ret.op = "fetch_agent_actions" /\ ret.err = "") =>
        \A a \in AgentIds :
            LET carried == a \in DOMAIN ret.actions /\ ret.actions[a].src = "social"
            IN  /\ carried <=> (a \in DOMAIN ret.recv /\ ControlledBy(a) # {})
                /\ (carried /\ agent_interfaces[a] = "MultiTargetPose") =>
                       /\ ret.actions[a].kind = "bundle"
                       /\ DOMAIN ret.actions[a].per_vehicle =
                              (DOMAIN ret.recv[a].per_vehicle) \cap ControlledBy(a)
                       /\ \A v \in DOMAIN ret.actions[a].per_vehicle :
                              ret.actions[a].per_vehicle[v] = ret.recv[a].per_vehicle[v]
                /\ (carried /\ agent_interfaces[a] # "MultiTargetPose") =>
                       ret.actions[a] = ret.recv[a]

\* C5 witness: a MultiTargetPose agent controlling v1 and shadowing v2 answered
\* with a bundle for both and the map carries its action for v1 alone.
C5_Witness ==
    /\ ret.op = "fetch_agent_actions" /\ ret.err = ""
    /\ \E a \in (DOMAIN ret.recv) \cap (DOMAIN ret.actions) \cap (DOMAIN agent_interfaces) :
           /\ agent_interfaces[a] = "MultiTargetPose"
           /\ ControlledBy(a) = {"v1"} /\ ShadowedBy(a) = {"v2"}
           /\ ret.recv[a] = FullBundle
           /\ DOMAIN ret.actions[a].per_vehicle = {"v1"}

\* The ids present both in the ego actions handed in and in the filtered
\* social actions.
CollidingIds ==
    {a \in (DOMAIN ret.ego_actions) \cap (DOMAIN ret.recv) : ControlledBy(a) # {}}

\* C6 as stated: on an id collision the merged map holds the ego action.
C6_EgoTakesPrecedence ==
    (ret.op = "fetch_agent_actions" /\ ret.err = "") =>
        \A a \in CollidingIds : ret.actions[a] = ret.ego_actions[a]

\* C6 as amended: on an id collision the merged map holds the filtered social
\* action; an id only the caller supplied keeps its ego action.
C6_SocialTakesPrecedence ==
    (ret.op = "fetch_agent_actions" /\ ret.err = "") =>
        /\ \A a \in CollidingIds : ret.actions[a].src = "social"
        /\ \A a \in (DOMAIN ret.ego_actions) \ CollidingIds :
               ret.actions[a] = ret.ego_actions[a]

\* C6 witness: a call returned with an id in both maps.
C6_Witness ==
    /\ ret.op = "fetch_agent_actions" /\ ret.err = ""
    /\ \E a \in CollidingIds : ret.recv[a] = SocialAction

\* What C7 says of one teardown_social_agents call, from the state before it
\* to the state after it.
C7_Step ==
    LET targeted == IF ret'.filter = NoFilter THEN social_agent_ids
                    ELSE social_agent_ids \cap ret'.filter[1]
    IN  ret'.op = "teardown_social_agents" =>
            /\ ret'.err = ""
            /\ ret'.ids = targeted
            /\ targeted \subseteq DOMAIN remote_social_agents
            /\ live_handles' = live_handles \ {remote_social_agents[id] : id \in targeted}
            /\ social_agent_ids' = social_agent_ids \ targeted
            /\ targeted = {} => UNCHANGED <<registries, live_handles>>

\* C7: a teardown_social_agents call raises nothing, returns exactly the
\* registered social ids it targets, terminates the handle of each exactly
\* once and unregisters them; a call that targets no registered id (the second
\* call for an id) returns the empty set and leaves registries and handles as
\* they were.
C7_TeardownTwiceTerminatesOnce == [][C7_Step]_vars

\* What C8 says of one attach_sensors_to_vehicles call, from the state before
\* it to the state after it.
C8_Step ==
    ret'.op = "attach_sensors_to_vehicles" =>
        \A v \in VehicleIds :
            /\ sensors_attached'[v] <= 1
            /\ sensors_attached'[v] - sensors_attached[v] \in {0, 1}
            /\ v \in DOMAIN vehicle_with_sensors =>
                   /\ v \in DOMAIN vehicle_with_sensors'
                   /\ vehicle_with_sensors'[v] = vehicle_with_sensors[v]
                   /\ sensors_attached'[v] = sensors_attached[v]
                   /\ (SynthesizedId(v) \in DOMAIN agent_interfaces) <=>
                          (SynthesizedId(v) \in DOMAIN agent_interfaces')
                   /\ SynthesizedId(v) \in DOMAIN agent_interfaces =>
                          agent_interfaces'[SynthesizedId(v)] = agent_interfaces[SynthesizedId(v)]
            /\ v \notin DOMAIN vehicle_with_sensors =>
                   (sensors_attached'[v] = 1 <=> \E i \in 1..Len(ret'.vehicle_ids) :
                                                     ret'.vehicle_ids[i] = v)

\* C8: an attach_sensors_to_vehicles call attaches sensors to a vehicle at
\* most once, no vehicle has sensors attached more than once while the
\* bindings are not cleared, and for a vehicle already bound the call changes
\* neither the binding nor the descriptor of its synthesized id.
C8_AttachOnce == [][C8_Step]_vars

\* C8 witness: v1 was bound by an earlier call with a MultiTargetPose
\* descriptor (no social agent exists that could have written it); a later
\* call for <<v1, v2>> with a Continuous descriptor bound v2 and left v1's
\* binding, descriptor and sensors alone.
C8_Witness ==
    /\ ret.op = "attach_sensors_to_vehicles"
    /\ ret.interface = "Continuous"
    /\ ret.vehicle_ids = <<"v1", "v2">>
    /\ social_agent_ids = {}
    /\ DOMAIN vehicle_with_sensors = {"v1", "v2"}
    /\ agent_interfaces["Agent-v1"] = "MultiTargetPose"
    /\ agent_interfaces["Agent-v2"] = "Continuous"
    /\ sensors_attached = [v \in VehicleIds |-> 1]

\* C9: for an active MultiTargetPose agent the done observe returns is true
\* exactly when the Sensor Engine reports done for at least one vehicle bound
\* to the agent (false when no vehicle is bound).
C9_MultiVehicleDoneIsOr ==
    (ret.op = "observe" /\ ret.err = "") =>
        \A a \in active_agents :
            agent_interfaces[a] = "MultiTargetPose" =>
                (ret.dones[a] <=> \E v \in ControlledBy(a) \cup ShadowedBy(a) : ret.sensed[v])

\* C9 witness: a MultiTargetPose agent bound to v1 (not done) and v2 (done) is done.
C9_Witness ==
    /\ ret.op = "observe" /\ ret.err = ""
    /\ \E a \in active_agents :
           /\ agent_interfaces[a] = "MultiTargetPose"
           /\ ControlledBy(a) = {"v1", "v2"}
           /\ ret.sensed = [v \in VehicleIds |-> v = "v2"]
           /\ ret.dones[a]

\* C10: a vehicle an agent only shadows never makes the agent's done true: an
\* active agent is done only if a vehicle it controls is reported done.
C10_ShadowingNeverDone ==
    (ret.op = "observe" /\ ret.err = "") =>
        \A a \in active_agents :
            ret.dones[a] => \E v \in ControlledBy(a) : ret.sensed[v]

\* The single vehicle the Vehicle Index binds to agent_id.
TheVehicle(agent_id) ==
    CHOOSE v \in vehicle_indices_by_actor_id(vehicle_index, agent_id) : TRUE

\* The active agents observe handled in its single-vehicle branch.
SingleVehicleAgents ==
    {a \in active_agents : agent_interfaces[a] # "MultiTargetPose"}

\* C11 as stated: for an active single-vehicle agent, when the agent is not the
\* shadowing agent recorded for its vehicle the returned done is false,
\* otherwise it is the done the Sensor Engine computed.
C11_NotShadowerForcedFalse ==
    (ret.op = "observe" /\ ret.err = "") =>
        \A a \in SingleVehicleAgents :
            ret.dones[a] = IF vehicle_index[TheVehicle(a)].shadow_actor_id # a
                           THEN FALSE
                           ELSE ret.sensed[TheVehicle(a)]

\* C11 as amended: when the agent is the shadowing agent recorded for its
\* vehicle the returned done is false, otherwise (the agent controls the
\* vehicle) it is the done the Sensor Engine computed.
C11_ShadowerForcedFalse ==
    (ret.op = "observe" /\ ret.err = "") =>
        \A a \in SingleVehicleAgents :
            ret.dones[a] = IF vehicle_index[TheVehicle(a)].shadow_actor_id = a
                           THEN FALSE
                           ELSE ret.sensed[TheVehicle(a)]

\* C11 witness: the Sensor Engine reports both vehicles done; one active
\* single-vehicle agent shadows its vehicle and is not done, another controls
\* its vehicle and is done.
C11_Witness ==
    /\ ret.op = "observe" /\ ret.err = ""
    /\ ret.sensed = [v \in VehicleIds |-> TRUE]
    /\ \E a, b \in SingleVehicleAgents :
           /\ ShadowedBy(a) # {} /\ ~ret.dones[a]
           /\ ControlledBy(b) # {} /\ ret.dones[b]

\* C12: observe marks every pending agent without a vehicle in the Vehicle
\* Index done, and the agents it observes (whose done comes from the Sensor
\* Engine) are exactly agent_ids minus the pending ids.
C12_PendingWithoutVehicleDone ==
    (ret.op = "observe" /\ ret.err = "") =>
        /\ \A a \in agent_ids \cap pending_agent_ids :
               ControlledBy(a) = {} => (a \in DOMAIN ret.dones /\ ret.dones[a])
        /\ active_agents \subseteq DOMAIN ret.dones
        /\ DOMAIN ret.dones \ active_agents \subseteq pending_agent_ids

\* The ids a teardown_social_agents call targets, from the state before it.
TargetedSocialIds ==
    IF ret'.filter = NoFilter THEN social_agent_ids
    ELSE social_agent_ids \cap ret'.filter[1]

\* What C13 says of one teardown_social_agents call in which terminate() raised.
C13_Step ==
    (ret'.op = "teardown_social_agents" /\ ret'.err = "TeardownError") =>
        \A id \in TargetedSocialIds :
            /\ id \notin social_agent_ids'
            /\ id \notin DOMAIN agent_interfaces'
            /\ id \notin DOMAIN agent_data_models'
            /\ id \notin DOMAIN remote_social_agents'

\* C13: when terminate() fails during teardown_social_agents the failure
\* reaches the caller and, when the operation ends, every targeted social id
\* is gone from the social id set, the capability descriptors, the metadata
\* and the handle map.
C13_TerminateFailureStillRemoves == [][C13_Step]_vars

\* Whether id has an entry in one of the registries a social agent is
\* registered in.
RegisteredAsSocial(id) ==
    \/ id \in social_agent_ids
    \/ id \in DOMAIN agent_interfaces
    \/ id \in DOMAIN agent_data_models
    \/ id \in DOMAIN remote_social_agents

\* What C14 says of one start_social_agent or setup_social_agents call that
\* raised.
C14_Step ==
    (ret'.op \in {"start_social_agent", "setup_social_agents"} /\ ret'.err # "") =>
        /\ ret'.err = "AcquisitionFailure"
        /\ ret'.adding # {}
        /\ UNCHANGED registries
        /\ \A id \in ret'.adding :
               ~RegisteredAsSocial(id) =>
                   /\ id \notin social_agent_ids'
                   /\ id \notin DOMAIN agent_interfaces'
                   /\ id \notin DOMAIN agent_data_models'
                   /\ id \notin DOMAIN remote_social_agents'

\* C14: when acquire_remote_agent() fails in start_social_agent or in
\* setup_social_agents the call raises the failure, every registry is as it
\* was before the call, and an id the call was adding that was not registered
\* before is in none of the social id set, the capability descriptors, the
\* metadata and the handle map.
C14_AcquisitionFailureRegistersNothing == [][C14_Step]_vars

\* C14 witness: setup_social_agents for two social agents raised at the second
\* acquisition; the first handle is alive and neither id is registered.
C14_Witness ==
    /\ ret.op = "setup_social_agents" /\ ret.err = "AcquisitionFailure"
    /\ ret.adding = {"a1", "Agent-v1"}
    /\ live_handles = {1}
    /\ \A id \in ret.adding :
           /\ id \notin social_agent_ids
           /\ id \notin DOMAIN agent_interfaces
           /\ id \notin DOMAIN agent_data_models
           /\ id \notin DOMAIN remote_social_agents

\* C15: in every reachable state every agent of agent_ids minus the pending
\* ids has a capability descriptor in agent_interfaces.
C15_ActiveAgentsHaveDescriptor == active_agents \subseteq DOMAIN agent_interfaces

\* C16: teardown() raises nothing and leaves the ego id set, the social id
\* set, the pending id set, the capability descriptors, the metadata, the
\* worker-handle map and the bystander bindings empty.
C16_TeardownEmptiesRegistries ==
    ret.op = "teardown" =>
        /\ ret.err = ""
        /\ ego_agent_ids = {}
        /\ social_agent_ids = {}
        /\ pending_agent_ids = {}
        /\ agent_interfaces = EmptyDict
        /\ agent_data_models = EmptyDict
        /\ remote_social_agents = EmptyDict
        /\ vehicle_with_sensors = EmptyDict

\* What C20 says of one attach_sensors_to_vehicles call.
C20_Step ==
    ret'.op = "attach_sensors_to_vehicles" =>
        /\ UNCHANGED <<ego_agent_ids, social_agent_ids, pending_agent_ids,
                       agent_data_models, remote_social_agents>>
        /\ \A a \in agent_ids \cap DOMAIN agent_interfaces :
               /\ a \in DOMAIN agent_interfaces'
               /\ agent_interfaces'[a] = agent_interfaces[a]
        /\ \A a \in (DOMAIN agent_interfaces') \ (DOMAIN agent_interfaces) :
               \E i \in 1..Len(ret'.vehicle_ids) : a = SynthesizedId(ret'.vehicle_ids[i])

\* C20: attach_sensors_to_vehicles leaves the ego id set, the social id set,
\* the pending id set, the metadata and the worker-handle map unchanged, never
\* changes the capability descriptor of a registered ego or social agent, and
\* adds descriptors only for the synthesized ids of the vehicles it was given.
C20_AttachTouchesOnlyBystanders == [][C20_Step]_vars

\* C18: in one fetch_agent_actions call the action of every social agent that
\* has a worker handle is requested exactly once, whichever workers time out
\* and whether the call returns or raises afterwards; the actions collected
\* are those of exactly these agents.
C18_EveryHandleAskedOnce ==
    ret.op = "fetch_agent_actions" =>
        /\ DOMAIN ret.requests = DOMAIN remote_social_agents
        /\ \A id \in DOMAIN remote_social_agents : ret.requests[id] = 1
        /\ DOMAIN ret.recv = DOMAIN remote_social_agents

\* C18 witness: of two social agents with a handle the first one asked timed
\* out and the second was asked all the same.
C18_Witness ==
    /\ ret.op = "fetch_agent_actions"
    /\ DOMAIN remote_social_agents = {"a1", "Agent-v1"}
    /\ ret.recv["a1"] = NoAction
    /\ ret.recv["Agent-v1"] = SocialAction
    /\ ret.requests = [id \in {"a1", "Agent-v1"} |-> 1]

\* What C17 says of the dict a call returned for the dict it was handed.
FilteredToActiveEgo(filtered, dict_) ==
    /\ DOMAIN filtered = ego_agent_ids \ pending_agent_ids
    /\ \A id \in DOMAIN filtered : id \in DOMAIN dict_ /\ filtered[id] = dict_[id]
    /\ (DOMAIN filtered) \cap social_agent_ids = {}
    /\ (DOMAIN filtered) \cap pending_agent_ids = {}

\* C17: a reset_agents call that returns sent exactly one observation to the
\* worker handle of every social agent and to nothing else, and the map it
\* returns has exactly the active ego ids as keys, each with its value of the
\* input, with no social id and no pending id among them; each component
\* filter_response_for_ego returns has the same keys.
C17_ResetFiltersToActiveEgo ==
    /\ (ret.op = "reset_agents" /\ ret.err = "") =>
           /\ DOMAIN ret.sent = social_agent_ids
           /\ \A id \in DOMAIN ret.sent : ret.sent[id] = 1
           /\ FilteredToActiveEgo(ret.filtered[1], ret.response[1])
    /\ (ret.op = "filter_response_for_ego" /\ ret.err = "") =>
           \A i \in 1..Len(ret.response) :
               FilteredToActiveEgo(ret.filtered[i], ret.response[i])

\* What C19 says of one call of a tick operation.
C19_Step ==
    ret'.op \in {"observe", "send_observations_to_social_agents",
                 "fetch_agent_actions", "step_agent_sensors"} =>
        UNCHANGED registries

\* C19: observe, send_observations_to_social_agents, fetch_agent_actions and
\* step_agent_sensors leave the ego id set, the social id set, the pending id
\* set, the capability descriptors, the metadata, the worker-handle map and
\* the bystander bindings as they were, whether the call returns or raises.
C19_TickLeavesMembership == [][C19_Step]_vars

\* C19 witness: with an ego agent pending and a social agent registered, a
\* tick operation raised and the registries are still populated.
C19_Witness ==
    /\ ret.op \in {"observe", "send_observations_to_social_agents", "fetch_agent_actions"}
    /\ ret.err # ""
    /\ ego_agent_ids = {"a1"}
    /\ pending_agent_ids = {"a1"}
    /\ social_agent_ids = {"Agent-v1"}
    /\ DOMAIN remote_social_agents = {"Agent-v1"}
    /\ DOMAIN agent_interfaces = {"a1", "Agent-v1"}

====
